---- MODULE Spec2Model ----
(***************************************************************************)
(* Model of the smart temperature/humidity sensor firmware that speaks the *)
(* TP-Link Kasa wire protocol: the autokey XOR codec and request handler   *)
(* of src/main/tplink_kasa.c and the TCP/UDP listeners of src/main/wifi.c. *)
(*                                                                         *)
(* C buffers are modelled as sequences: C index i is element i + 1.        *)
(***************************************************************************)
EXTENDS Integers, Sequences, FiniteSets, TLC

VARIABLES
    cop,        \* codec harness: which codec call was made last
    enc_in,     \* payload (serialized document, a C string) of the last tplink_kasa_encrypt call
    enc_hdr,    \* include_header of the last codec call
    enc_out,    \* [encrypted_payload, encrypted_len] produced by encrypt / handed to decrypt
    dec_out,    \* result of the last tplink_kasa_decrypt call
    enc_prev,   \* the tplink_kasa_encrypt call before the last one: [payload, hdr, out]
    todo,       \* codec harness: the [payload, hdr] documents still to be encrypted
    raw,        \* codec harness: the received buffer tplink_kasa_decrypt is called on
    hop,        \* header harness: "idle", "start", "written" or "read"
    hlen,       \* header harness: the payload length the header is written for
    hbytes,     \* header harness: the four header bytes tplink_kasa_encrypt wrote
    hread,      \* header harness: header.payload_length as tplink_kasa_decrypt read it
    am2302,     \* what am2302_read_data returns now: [error, temperature, humidity]
    pb_state,   \* responder harness: "start", "returned" or "crashed"
    pb_in,      \* responder harness: [raw_buffer, include_header] of the call
    pb_out,     \* responder harness: what tplink_kasa_process_buffer did
    server_running, \* the flag the listeners poll (static bool server_running)
    tasks,      \* the server_task instances created so far, in creation order
    panicked,   \* the firmware went down after a write outside a heap block
    stop_requested, \* event_handler cleared server_running and has not called start_servers since
    wire        \* the calls the last server_task step made: [task, calls]

hvars == <<hop, hlen, hbytes, hread>>
cvars == <<cop, enc_in, enc_hdr, enc_out, dec_out, enc_prev, todo, raw, hop, hlen, hbytes, hread>>
pvars == <<pb_state, pb_in, pb_out>>
svars == <<server_running, tasks, panicked, stop_requested, wire>>
vars == <<cop, enc_in, enc_hdr, enc_out, dec_out, enc_prev, todo, raw,
          hop, hlen, hbytes, hread,
          am2302, pb_state, pb_in, pb_out, server_running, tasks, panicked,
          stop_requested, wire>>

----------------------------------------------------------------------------
(* Bounds of the model *)

\* longest plaintext string drawn for the codec round trips
MaxLen == 3
\* longest raw ciphertext buffer drawn for tplink_kasa_decrypt
MaxRaw == 6

----------------------------------------------------------------------------
(* Bytes and machine arithmetic *)

Byte == 0..255

Max(a, b) == IF a >= b THEN a ELSE b

\* A uint32_t is held as its two 16-bit halves (TLC's integers are
\* 32-bit signed).  U32 is the conversion int -> uint32_t (two's complement wrap).
U32(x) == [hi |-> (x \div 65536) % 65536, lo |-> x % 65536]

\* a > b and a <= b on uint32_t
U32Gt(a, b) == a.hi > b.hi \/ (a.hi = b.hi /\ a.lo > b.lo)
U32Le(a, b) == ~U32Gt(a, b)

\* uint32_t -> int conversion
ToInt(v) == IF v.hi < 32768 THEN v.hi * 65536 + v.lo
            ELSE (v.hi - 65536) * 65536 + v.lo

RECURSIVE XorBits(_, _, _)
XorBits(a, b, n) ==
    IF n = 0 THEN 0
    ELSE (((a % 2) + (b % 2)) % 2) + 2 * XorBits(a \div 2, b \div 2, n - 1)

RECURSIVE OrBits(_, _, _)
OrBits(a, b, n) ==
    IF n = 0 THEN 0
    ELSE Max(a % 2, b % 2) + 2 * OrBits(a \div 2, b \div 2, n - 1)

\* a | b written where a ^ b was meant
XorAsOr(a, b) == OrBits(a, b, 8)

\* the C expression (char)(a ^ b) on byte values
Xor(a, b) == XorBits(a, b, 8)

\* C index i of a buffer
At(buf, i) == buf[i + 1]

\* seed of the autokey cipher
cipher_key == 171

\* sizeof(union payload_header)
HeaderSize == 4

\* union payload_header on the little-endian target: bytes[k] of payload_length v
HeaderBytes(v) ==
    [k \in 0..3 |-> IF k < 2 THEN (v.lo \div (256 ^ k)) % 256
                    ELSE (v.hi \div (256 ^ (k - 2))) % 256]

\* union payload_header read back: payload_length of bytes b (a function on 0..3)
HeaderValue(b) == [hi |-> b[3] * 256 + b[2], lo |-> b[1] * 256 + b[0]]

----------------------------------------------------------------------------
(* tplink_kasa_encrypt / tplink_kasa_decrypt *)

\* The loops of tplink_kasa_encrypt and tplink_kasa_decrypt run over the bytes
\* lo..hi in index order, each byte under the key the byte before it left.  They
\* are unfolded by halves (left half first, its final key handed to the right
\* half) so that the depth of evaluation stays logarithmic in the length.

\* the encrypt loop with the key taken from the plaintext byte just consumed
RECURSIVE EncryptRangeKeyPlain(_, _, _, _)
EncryptRangeKeyPlain(payload, key, lo, hi) ==
    IF lo > hi THEN <<>>
    ELSE IF lo = hi THEN <<XorBits(payload[lo], key, 8)>>
    ELSE LET mid == (lo + hi) \div 2
         IN  EncryptRangeKeyPlain(payload, key, lo, mid)
             \o EncryptRangeKeyPlain(payload, payload[mid], mid + 1, hi)

\* for (i...) key = encrypted_payload[i + header_len] = payload[i] ^ key
RECURSIVE EncryptRange(_, _, _, _)
EncryptRange(payload, key, lo, hi) ==
    IF lo > hi THEN <<>>
    ELSE IF lo = hi THEN <<Xor(payload[lo], key)>>
    ELSE LET mid  == (lo + hi) \div 2
             left == EncryptRange(payload, key, lo, mid)
         IN  left \o EncryptRange(payload, left[Len(left)], mid + 1, hi)

EncryptLoop(payload, key) == EncryptRange(payload, key, 1, Len(payload))

\* the decrypt loop with the key taken from the plaintext byte just produced
RECURSIVE DecryptRangeKeyPlain(_, _, _, _)
DecryptRangeKeyPlain(encrypted, key, lo, hi) ==
    IF lo > hi THEN <<>>
    ELSE IF lo = hi THEN <<XorBits(encrypted[lo], key, 8)>>
    ELSE LET mid  == (lo + hi) \div 2
             left == DecryptRangeKeyPlain(encrypted, key, lo, mid)
         IN  left \o DecryptRangeKeyPlain(encrypted, left[Len(left)], mid + 1, hi)

\* for (i...) { decrypted_payload[i] = encrypted_payload[i + header_len] ^ key;
\*              key = encrypted_payload[i + header_len]; }
RECURSIVE DecryptRange(_, _, _, _)
DecryptRange(encrypted, key, lo, hi) ==
    IF lo > hi THEN <<>>
    ELSE IF lo = hi THEN <<Xor(encrypted[lo], key)>>
    ELSE LET mid == (lo + hi) \div 2
         IN  DecryptRange(encrypted, key, lo, mid)
             \o DecryptRange(encrypted, encrypted[mid], mid + 1, hi)

DecryptLoop(encrypted, key) == DecryptRange(encrypted, key, 1, Len(encrypted))

\* the header written least significant byte first
EncryptHeaderLittleEndian(payload_length) ==
    LET hb == HeaderBytes(U32(payload_length))
    IN  <<hb[0], hb[1], hb[2], hb[3]>>

\* header.payload_length = strlen(payload);
\* encrypted_payload[0..3] = header.bytes[3], [2], [1], [0]
EncryptHeader(payload_length) ==
    LET hb == HeaderBytes(U32(payload_length))
    IN  <<hb[3], hb[2], hb[1], hb[0]>>

\* header.bytes[3], [2], [1], [0] = encrypted_payload[0..3], read back as
\* header.payload_length
DecryptHeader(encrypted_payload) ==
    HeaderValue([k \in 0..3 |-> At(encrypted_payload, 3 - k)])

\* tplink_kasa_encrypt with the header counted in whatever include_header says
EncryptHeaderAlways(payload, include_header) ==
    LET n   == Len(payload)
        hdr == EncryptHeader(n)
    IN  [encrypted_payload |-> hdr \o EncryptLoop(payload, cipher_key),
         encrypted_len |-> n + HeaderSize]

\* payload is the string cJSON_PrintUnformatted returned (no NUL inside).
\* encrypted_payload holds every byte the call wrote, from index 0.
tplink_kasa_encrypt(payload, include_header) ==
    LET n          == Len(payload)
        hdr        == EncryptHeader(n)
        header_len == IF include_header THEN HeaderSize ELSE 0
        c          == EncryptLoop(payload, cipher_key)
    IN  [encrypted_payload |->
            [i \in 1..Max(HeaderSize, n + header_len) |->
                IF i > header_len /\ i <= header_len + n
                THEN c[i - header_len] ELSE hdr[i]],
         encrypted_len |-> n + header_len]

\* reads / writes: the C indices of encrypted_payload read and of
\* decrypted_payload written; decrypted_payload holds the bytes written from
\* index 0, the terminating NUL included.  include_header is never consulted.
tplink_kasa_decrypt(encrypted_payload, encrypted_len, include_header) ==
    IF U32Le(U32(encrypted_len), U32(HeaderSize))
    THEN [ret |-> 0, decrypted_payload |-> <<0>>, header_len |-> HeaderSize,
          reads |-> {}, writes |-> {0}]
    ELSE LET declared == DecryptHeader(encrypted_payload)
             truncate == U32Gt(declared, U32(encrypted_len - HeaderSize))
             header_len     == IF truncate THEN 0 ELSE HeaderSize
             payload_length == ToInt(IF truncate THEN U32(encrypted_len) ELSE declared)
             body == SubSeq(encrypted_payload, header_len + 1, header_len + payload_length)
         IN  [ret |-> payload_length,
              decrypted_payload |-> DecryptLoop(body, cipher_key) \o <<0>>,
              header_len |-> header_len,
              reads  |-> (0..3) \cup {i + header_len : i \in 0..(payload_length - 1)},
              writes |-> 0..payload_length]

\* the C string held in a NUL-terminated buffer: the bytes before the first NUL
CString(buf) ==
    LET nuls == {i \in 1..Len(buf) : buf[i] = 0}
    IN  IF nuls = {} THEN buf
        ELSE SubSeq(buf, 1, (CHOOSE i \in nuls : \A j \in nuls : i <= j) - 1)

----------------------------------------------------------------------------
(* Documents (cJSON items) *)

\* a cJSON item; child holds the members of an object, in order
NULL == [type |-> "NULL", child |-> <<>>, valueint |-> 0, valuestring |-> <<>>]
Object(members) == [type |-> "Object", child |-> members, valueint |-> 0, valuestring |-> <<>>]
Number(n) == [type |-> "Number", child |-> <<>>, valueint |-> n, valuestring |-> <<>>]
String(s) == [type |-> "String", child |-> <<>>, valueint |-> 0, valuestring |-> s]
FalseItem == [type |-> "False", child |-> <<>>, valueint |-> 0, valuestring |-> <<>>]
TrueItem == [type |-> "True", child |-> <<>>, valueint |-> 0, valuestring |-> <<>>]

\* a member of an object: the item with its name (item->string)
Member(name, item) == [string |-> name, item |-> item]

\* member names the code looks up
NameSystem == <<115, 121, 115, 116, 101, 109>>                           \* "system"
NameGetSysinfo == <<103, 101, 116, 95, 115, 121, 115, 105, 110, 102, 111>>  \* "get_sysinfo"
NameState == <<115, 116, 97, 116, 101>>                                 \* "state"
NameTemperature == <<116, 101, 109, 112, 101, 114, 97, 116, 117, 114, 101>> \* "temperature"
NameHumidity == <<104, 117, 109, 105, 100, 105, 116, 121>>              \* "humidity"
NameErrCode == <<101, 114, 114, 95, 99, 111, 100, 101>>                 \* "err_code"

\* tolower on one byte, and on a name: cJSON compares member names without case
ToLower(b) == IF b >= 65 /\ b <= 90 THEN b + 32 ELSE b
LowerName(s) == [i \in 1..Len(s) |-> ToLower(s[i])]

\* index of the first member of object called name, 0 when there is none
MemberIndex(object, name) ==
    LET hits == {i \in 1..Len(object.child) :
                    LowerName(object.child[i].string) = LowerName(name)}
    IN  IF hits = {} THEN 0 ELSE CHOOSE i \in hits : \A j \in hits : i <= j

cJSON_GetObjectItem(object, name) ==
    IF object = NULL \/ MemberIndex(object, name) = 0 THEN NULL
    ELSE object.child[MemberIndex(object, name)].item

cJSON_HasObjectItem(object, name) == cJSON_GetObjectItem(object, name) # NULL

\* cJSON_AddItemToObject on the item reached from root by the member names in
\* path (the code holds a pointer to it): nothing is added when that pointer
\* is NULL.
RECURSIVE AddItemAt(_, _, _, _)
AddItemAt(root, path, name, item) ==
    IF path = <<>> THEN [root EXCEPT !.child = Append(@, Member(name, item))]
    ELSE LET i == MemberIndex(root, Head(path))
         IN  IF i = 0 THEN root
             ELSE [root EXCEPT !.child[i].item = AddItemAt(@, Tail(path), name, item)]

\* decimal text of an integer, as cJSON prints a number with no fraction
RECURSIVE Decimal(_)
Decimal(n) ==
    IF n < 0 THEN <<45>> \o Decimal(0 - n)
    ELSE IF n < 10 THEN <<48 + n>>
    ELSE Decimal(n \div 10) \o <<48 + (n % 10)>>

Quoted(s) == <<34>> \o s \o <<34>>

\* the serialized text of an item, without whitespace
RECURSIVE cJSON_PrintUnformatted(_)
RECURSIVE PrintMembers(_)
PrintMembers(members) ==
    IF members = <<>> THEN <<>>
    ELSE Quoted(Head(members).string) \o <<58>> \o cJSON_PrintUnformatted(Head(members).item)
         \o (IF Len(members) > 1 THEN <<44>> ELSE <<>>) \o PrintMembers(Tail(members))

cJSON_PrintUnformatted(item) ==
    CASE item.type = "Object" -> <<123>> \o PrintMembers(item.child) \o <<125>>
      [] item.type = "Number" -> Decimal(item.valueint)
      [] item.type = "String" -> Quoted(item.valuestring)
      [] item.type = "False"  -> <<102, 97, 108, 115, 101>>
      [] item.type = "True"   -> <<116, 114, 117, 101>>

\* the device descriptor: the document the C string literal tplink_kasa_sysinfo
\* parses to (the literal's whitespace carries no content)
tplink_kasa_sysinfo ==
    Object(<<
        \* "system"
        Member(<<115, 121, 115, 116, 101, 109>>,
            Object(<<
                \* "get_sysinfo"
                Member(<<103, 101, 116, 95, 115, 121, 115, 105, 110, 102, 111>>,
                    Object(<<
                        \* "sw_ver": "1.0.0 Build 000001 Rel.000001"
                        Member(<<115, 119, 95, 118, 101, 114>>,
                            String(<<49, 46, 48, 46, 48, 32, 66, 117, 105, 108, 100, 32, 48, 48,
                                48, 48, 48, 49, 32, 82, 101, 108, 46,
                                48, 48, 48, 48, 48, 49>>)),
                        \* "hw_ver": "1.0"
                        Member(<<104, 119, 95, 118, 101, 114>>,
                            String(<<49, 46, 48>>)),
                        \* "model": "KL130B(UN)"
                        Member(<<109, 111, 100, 101, 108>>,
                            String(<<75, 76, 49, 51, 48, 66, 40, 85, 78, 41>>)),
                        \* "deviceId": "80121C1874CF2DEA94DF3127F8DDF7D71DD7112F"
                        Member(<<100, 101, 118, 105, 99, 101, 73, 100>>,
                            String(<<56, 48, 49, 50, 49, 67, 49, 56, 55, 52, 67, 70, 50, 68, 69,
                                65, 57, 52, 68, 70, 51, 49, 50, 55,
                                70, 56, 68, 68, 70, 55, 68, 55, 49,
                                68, 68, 55, 49, 49, 50, 70>>)),
                        \* "oemId": "E45F76AD3AF13E60B58D6F68739CD7E5"
                        Member(<<111, 101, 109, 73, 100>>,
                            String(<<69, 52, 53, 70, 55, 54, 65, 68, 51, 65, 70, 49, 51, 69, 54,
                                48, 66, 53, 56, 68, 54, 70, 54, 56,
                                55, 51, 57, 67, 68, 55, 69, 53>>)),
                        \* "hwId": "1E97141B9F0E939BD8F9679F0B6167C8"
                        Member(<<104, 119, 73, 100>>,
                            String(<<49, 69, 57, 55, 49, 52, 49, 66, 57, 70, 48, 69, 57, 51, 57,
                                66, 68, 56, 70, 57, 54, 55, 57, 70,
                                48, 66, 54, 49, 54, 55, 67, 56>>)),
                        \* "rssi": -71
                        Member(<<114, 115, 115, 105>>,
                            Number(-71)),
                        \* "latitude_i": 0
                        Member(<<108, 97, 116, 105, 116, 117, 100, 101, 95, 105>>,
                            Number(0)),
                        \* "longitude_i": 0
                        Member(<<108, 111, 110, 103, 105, 116, 117, 100, 101, 95, 105>>,
                            Number(0)),
                        \* "alias": "Back Light"
                        Member(<<97, 108, 105, 97, 115>>,
                            String(<<66, 97, 99, 107, 32, 76, 105, 103, 104, 116>>)),
                        \* "status": "new"
                        Member(<<115, 116, 97, 116, 117, 115>>,
                            String(<<110, 101, 119>>)),
                        \* "description": "WiFi BLE Smart Bulb Bridge"
                        Member(<<100, 101, 115, 99, 114, 105, 112, 116, 105, 111, 110>>,
                            String(<<87, 105, 70, 105, 32, 66, 76, 69, 32, 83, 109, 97, 114, 116,
                                32, 66, 117, 108, 98, 32, 66, 114,
                                105, 100, 103, 101>>)),
                        \* "mic_type": "IOT.SMARTBULB"
                        Member(<<109, 105, 99, 95, 116, 121, 112, 101>>,
                            String(<<73, 79, 84, 46, 83, 77, 65, 82, 84, 66, 85, 76, 66>>)),
                        \* "mic_mac": "C0C9E3AD7C1D"
                        Member(<<109, 105, 99, 95, 109, 97, 99>>,
                            String(<<67, 48, 67, 57, 69, 51, 65, 68, 55, 67, 49, 68>>)),
                        \* "dev_state": "normal"
                        Member(<<100, 101, 118, 95, 115, 116, 97, 116, 101>>,
                            String(<<110, 111, 114, 109, 97, 108>>)),
                        \* "is_factory": false
                        Member(<<105, 115, 95, 102, 97, 99, 116, 111, 114, 121>>,
                            FalseItem),
                        \* "disco_ver": "1.0"
                        Member(<<100, 105, 115, 99, 111, 95, 118, 101, 114>>,
                            String(<<49, 46, 48>>)),
                        \* "ctrl_protocols"
                        Member(<<99, 116, 114, 108, 95, 112, 114, 111, 116, 111, 99, 111, 108, 115>>,
                            Object(<<
                                \* "name": "Linkie"
                                Member(<<110, 97, 109, 101>>,
                                    String(<<76, 105, 110, 107, 105, 101>>)),
                                \* "version": "1.0"
                                Member(<<118, 101, 114, 115, 105, 111, 110>>,
                                    String(<<49, 46, 48>>))
                            >>)),
                        \* "active_mode": "none"
                        Member(<<97, 99, 116, 105, 118, 101, 95, 109, 111, 100, 101>>,
                            String(<<110, 111, 110, 101>>)),
                        \* "is_dimmable": 1
                        Member(<<105, 115, 95, 100, 105, 109, 109, 97, 98, 108, 101>>,
                            Number(1)),
                        \* "is_color": 1
                        Member(<<105, 115, 95, 99, 111, 108, 111, 114>>,
                            Number(1)),
                        \* "is_variable_color_temp": 1
                        Member(<<105, 115, 95, 118, 97, 114, 105, 97, 98, 108, 101, 95, 99, 111, 108, 111, 114, 95, 116, 101, 109, 112>>,
                            Number(1)),
                        \* "light_state"
                        Member(<<108, 105, 103, 104, 116, 95, 115, 116, 97, 116, 101>>,
                            Object(<<
                                \* "on_off": 0
                                Member(<<111, 110, 95, 111, 102, 102>>,
                                    Number(0))
                            >>)),
                        \* "err_code": 0
                        Member(<<101, 114, 114, 95, 99, 111, 100, 101>>,
                            Number(0))
                    >>))
            >>))
    >>)

----------------------------------------------------------------------------
(* Request documents and cJSON_Parse *)

\* {"system":{"get_sysinfo":{}}}
DocGetSysinfo == Object(<<Member(NameSystem, Object(<<Member(NameGetSysinfo, Object(<<>>))>>))>>)
\* {"foo":1}
DocFoo == Object(<<Member(<<102, 111, 111>>, Number(1))>>)
\* {"system":{"foo":1}}
DocSystemFoo == Object(<<Member(NameSystem, Object(<<Member(<<102, 111, 111>>, Number(1))>>))>>)
\* {"system":1}
DocSystemNumber == Object(<<Member(NameSystem, Number(1))>>)
\* "a"
DocString == String(<<97>>)

\* the documents a received text can parse to
ParseDocs == {DocGetSysinfo, DocFoo, DocSystemFoo, DocSystemNumber, DocString}

IsPrefix(p, s) == Len(p) <= Len(s) /\ SubSeq(s, 1, Len(p)) = p

\* cJSON_Parse reads one document from the start of the C string in value
\* (what follows it is not looked at) and yields NULL when there is none
cJSON_Parse(value) ==
    LET s    == CString(value)
        hits == {d \in ParseDocs : IsPrefix(cJSON_PrintUnformatted(d), s)}
    IN  IF hits = {} THEN NULL ELSE CHOOSE d \in hits : TRUE

----------------------------------------------------------------------------
(* The sensor *)

\* am2302_read_data reports tenths; a failed read is reported as 0
thsensor_read_humidity == IF am2302.error THEN 0 ELSE am2302.humidity \div 10
thsensor_read_temperature == IF am2302.error THEN 0 ELSE am2302.temperature \div 10

----------------------------------------------------------------------------
(* tplink_kasa_process_buffer *)

\* the values tplink_kasa_process_buffer puts in the reply
temperature == 0
humidity == 0

\* the path resp_system -> resp_sysinfo -> resp_state the three items are added at
StatePath == <<NameSystem, NameGetSysinfo, NameState>>

\* the reply document: the parsed template with the three items added
SysinfoResponse ==
    LET response_template == tplink_kasa_sysinfo
        t1 == AddItemAt(response_template, StatePath, NameTemperature, Number(temperature))
        t2 == AddItemAt(t1, StatePath, NameHumidity, Number(humidity))
    IN  AddItemAt(t2, StatePath, NameErrCode, Number(0))

\* the string tplink_kasa_encrypt gets from cJSON_PrintUnformatted for the reply
SysinfoPayload == cJSON_PrintUnformatted(SysinfoResponse)

\* raw_buffer holds buffer_len received bytes.  The result records the return
\* value, the reply bytes left at the start of raw_buffer, the request and
\* response documents, and the indices read and written: scratch_* are those
\* of json_string (malloc(buffer_len) bytes), raw_writes those of raw_buffer.
tplink_kasa_process_buffer(raw_buffer, buffer_len, include_header) ==
    LET dec == tplink_kasa_decrypt(raw_buffer, buffer_len, include_header)
        rx_json_message == cJSON_Parse(dec.decrypted_payload)
        matched == /\ rx_json_message # NULL
                   /\ cJSON_HasObjectItem(cJSON_GetObjectItem(rx_json_message, NameSystem),
                                          NameGetSysinfo)
        enc == IF matched THEN tplink_kasa_encrypt(SysinfoPayload, include_header)
               ELSE [encrypted_payload |-> <<>>, encrypted_len |-> 0]
    IN  [ret            |-> enc.encrypted_len,
         reply          |-> SubSeq(enc.encrypted_payload, 1, enc.encrypted_len),
         request        |-> rx_json_message,
         response       |-> IF matched THEN SysinfoResponse ELSE NULL,
         decrypted_len  |-> dec.ret,
         scratch_size   |-> buffer_len,
         scratch_writes |-> dec.writes,
         raw_reads      |-> dec.reads,
         raw_writes     |-> {buffer_len} \cup {i - 1 : i \in 1..Len(enc.encrypted_payload)},
         sensor_reads   |-> 0]

\* the item the three numbers are added to: NULL when the template has no
\* "state" member under system -> get_sysinfo
resp_state ==
    cJSON_GetObjectItem(
        cJSON_GetObjectItem(cJSON_GetObjectItem(tplink_kasa_sysinfo, NameSystem),
                            NameGetSysinfo),
        NameState)

\* the heap blocks the call r allocated: the scratch buffer, the parsed
\* request, and for a matched request the parsed template, the three numbers
\* and the serialized reply
Allocated(r) ==
    {"json_string"}
    \cup (IF r.request # NULL THEN {"rx_json_message"} ELSE {})
    \cup (IF r.response # NULL
          THEN {"response_template", "temperature", "humidity", "err_code", "payload"}
          ELSE {})

\* the blocks the call released: free(json_string), cJSON_Delete of the two
\* documents, free(payload); cJSON_Delete(response_template) releases the
\* numbers only if cJSON_AddItemToObject attached them to it
Released(r) ==
    {"json_string"}
    \cup (IF r.request # NULL THEN {"rx_json_message"} ELSE {})
    \cup (IF r.response # NULL THEN {"response_template", "payload"} ELSE {})
    \cup (IF r.response # NULL /\ resp_state # NULL
          THEN {"temperature", "humidity", "err_code"} ELSE {})

\* a write outside json_string: undefined behaviour
ScratchOverrun(r) == \E w \in r.scratch_writes : w >= r.scratch_size

\* what can follow the call: it returns, or, after a write outside the heap
\* block, the corrupted heap brings the firmware down
CallOutcomes(r) == IF ScratchOverrun(r) THEN {"returned", "crashed"} ELSE {"returned"}

----------------------------------------------------------------------------
(* Codec harness: calls of the two codec functions on bounded inputs *)

\* bytes plaintext strings are drawn from: '1', '2' and the seed value itself
PlainBytes == {49, 50, 171}

\* bytes raw ciphertext buffers are drawn from
RawBytes == {0, 2, 208}

SeqsUpTo(S, n) == UNION {[1..k -> S] : k \in 0..n}

\* {"foo":1}
TextFoo == <<123, 34, 102, 111, 111, 34, 58, 49, 125>>

\* {"system":{"get_sysinfo":{}}}
TextGetSysinfo ==
    <<123, 34, 115, 121, 115, 116, 101, 109, 34, 58, 123, 34, 103, 101, 116, 95,
      115, 121, 115, 105, 110, 102, 111, 34, 58, 123, 125, 125, 125>>

Plaintexts == (SeqsUpTo(PlainBytes, MaxLen) \ {<<>>}) \cup {TextFoo, TextGetSysinfo}

RawBuffers == SeqsUpTo(RawBytes, MaxRaw)

\* readings of the sensor: a good one, a failed one, and all zero
Readings == {[error |-> FALSE, temperature |-> 215, humidity |-> 480],
             [error |-> TRUE,  temperature |-> 0,   humidity |-> 0],
             [error |-> FALSE, temperature |-> 0,   humidity |-> 0]}

NoResult == [ret |-> 0, reply |-> <<>>, request |-> NULL, response |-> NULL,
             decrypted_len |-> 0, scratch_size |-> 0, scratch_writes |-> {},
             raw_reads |-> {}, raw_writes |-> {}, sensor_reads |-> 0]

\* the responder harness is not in use
ProcessIdle ==
    /\ am2302 = [error |-> FALSE, temperature |-> 0, humidity |-> 0]
    /\ pb_state = "idle"
    /\ pb_in = [raw_buffer |-> <<>>, include_header |-> FALSE]
    /\ pb_out = NoResult

\* no listener exists: the state after boot, before any WiFi event
ServerIdle ==
    /\ server_running = FALSE
    /\ tasks = <<>>
    /\ panicked = FALSE
    /\ stop_requested = FALSE
    /\ wire = [task |-> 0, calls |-> <<>>]

\* the header harness is not in use
HeaderIdle ==
    /\ hop = "idle"
    /\ hlen = 0
    /\ hbytes = <<>>
    /\ hread = 0

NoCall == [payload |-> <<>>, hdr |-> FALSE, out |-> <<>>]
NoDec  == [ret |-> 0, decrypted_payload |-> <<>>, header_len |-> 0, reads |-> {}, writes |-> {}]
NoEnc  == [encrypted_payload |-> <<>>, encrypted_len |-> 0]

CodecInputs == [payload : Plaintexts, hdr : BOOLEAN]

\* either two documents to encrypt (and decrypt back), or one received buffer
InitCodec ==
    /\ cop = "start"
    /\ enc_in = <<>>
    /\ enc_hdr = FALSE
    /\ enc_out = NoEnc
    /\ dec_out = NoDec
    /\ enc_prev = NoCall
    /\ \/ todo \in [1..2 -> CodecInputs] /\ raw = <<>>
       \/ todo = <<>> /\ raw \in RawBuffers
    /\ HeaderIdle
    /\ ProcessIdle
    /\ ServerIdle

\* a caller serializes the next document and encrypts it
CallEncrypt ==
    /\ todo # <<>>
    /\ enc_prev' = IF cop = "start" THEN NoCall
                   ELSE [payload |-> enc_in, hdr |-> enc_hdr, out |-> enc_out.encrypted_payload]
    /\ enc_in' = Head(todo).payload
    /\ enc_hdr' = Head(todo).hdr
    /\ enc_out' = tplink_kasa_encrypt(Head(todo).payload, Head(todo).hdr)
    /\ dec_out' = NoDec
    /\ cop' = "encrypt"
    /\ todo' = Tail(todo)
    /\ UNCHANGED raw

\* the peer decrypts what encrypt produced, with the same header flag
CallDecrypt ==
    /\ cop = "encrypt"
    /\ dec_out' = tplink_kasa_decrypt(enc_out.encrypted_payload, enc_out.encrypted_len, enc_hdr)
    /\ cop' = "decrypt"
    /\ UNCHANGED <<enc_in, enc_hdr, enc_out, enc_prev, todo, raw>>

\* decrypt is handed the received buffer, Len(raw) bytes, under either flag
CallDecryptRaw(h) ==
    /\ cop = "start"
    /\ todo = <<>>
    /\ enc_hdr' = h
    /\ enc_out' = [encrypted_payload |-> raw, encrypted_len |-> Len(raw)]
    /\ dec_out' = tplink_kasa_decrypt(raw, Len(raw), h)
    /\ cop' = "decrypt_raw"
    /\ UNCHANGED <<enc_in, enc_prev, todo, raw>>

NextCodec ==
    /\ \/ CallEncrypt
       \/ CallDecrypt
       \/ \E h \in BOOLEAN : CallDecryptRaw(h)
    /\ UNCHANGED <<am2302, pvars, svars, hvars>>

SpecCodec == InitCodec /\ [][NextCodec]_vars

----------------------------------------------------------------------------
(* Responder harness: one call of tplink_kasa_process_buffer on a bounded
   received buffer, as a listener makes it *)

\* the codec harness is not in use
CodecIdle ==
    /\ cop = "idle"
    /\ enc_in = <<>>
    /\ enc_hdr = FALSE
    /\ enc_out = NoEnc
    /\ dec_out = NoDec
    /\ enc_prev = NoCall
    /\ todo = <<>>
    /\ raw = <<>>
    /\ HeaderIdle

\* a request as a peer frames it, with or without the length header
Framed(text, hdr) ==
    LET e == tplink_kasa_encrypt(text, hdr)
    IN  SubSeq(e.encrypted_payload, 1, e.encrypted_len)

RequestFrames ==
    {Framed(cJSON_PrintUnformatted(d), h) : d \in ParseDocs, h \in BOOLEAN}

\* the framed get_sysinfo request cut short at every length
TruncatedFrames ==
    {SubSeq(Framed(TextGetSysinfo, TRUE), 1, k) : k \in 0..(Len(TextGetSysinfo) + HeaderSize)}

\* twelve bytes of noise whose first four declare far more than eight bytes
Noise12 == <<208, 242, 129, 248, 139, 255, 154, 247, 213, 239, 148, 182>>

ReceivedBuffers == RawBuffers \cup RequestFrames \cup TruncatedFrames \cup {Noise12}

InitProcess ==
    /\ CodecIdle
    /\ am2302 \in Readings
    /\ pb_state = "start"
    /\ pb_in \in [raw_buffer : ReceivedBuffers, include_header : BOOLEAN]
    /\ pb_out = NoResult
    /\ ServerIdle

\* the listener hands the received bytes to tplink_kasa_process_buffer
CallProcessBuffer ==
    /\ pb_state = "start"
    /\ LET r == tplink_kasa_process_buffer(pb_in.raw_buffer, Len(pb_in.raw_buffer),
                                           pb_in.include_header)
       IN  /\ pb_out' = r
           /\ pb_state' \in CallOutcomes(r)
    /\ UNCHANGED <<pb_in, am2302, cvars, svars>>

\* the reading changes while the firmware runs
SensorChange ==
    /\ pb_state = "start"
    /\ \E r \in Readings : r # am2302 /\ am2302' = r
    /\ UNCHANGED <<pvars, cvars, svars>>

NextProcess ==
    \/ CallProcessBuffer
    \/ SensorChange

SpecProcess == InitProcess /\ [][NextProcess]_vars

----------------------------------------------------------------------------
(* The listeners: event_handler, start_servers and server_task of wifi.c *)

\* server_task instances the model lets start_servers create in all
MaxTasks == 4
\* accepted connections the socket table can hold open at once
MaxConns == 2

\* the size of the listener's receive buffer
buffer_len == 2000

\* the socket types start_servers creates a server_task for: SOCK_STREAM, SOCK_DGRAM
Transports == {"tcp", "udp"}

\* one call a task made on a socket or on the responder: what was called, the
\* offset into raw_buffer and the length it was given, what it returned, and
\* for a send the bytes it was given
Io(op, at, len, ret, data) ==
    [op |-> op, at |-> at, len |-> len, ret |-> ret, data |-> data]

\* a call that moves no bytes out
Call(op, ret) == Io(op, 0, 0, ret, <<>>)

\* a server_task just created by xTaskCreate: nothing allocated yet.
\*   my_sock / raw_buffer: the listening socket is open / the buffer is allocated
\*   connection: the local variable holds an accepted descriptor
\*   conns: connections this task accepted that are still open
\*   held: the reply in raw_buffer while the write loop sends it
\*   sent: the bytes the peer of the connection has been sent so far
NewTask(kind) ==
    [kind |-> kind, pc |-> "setup", my_sock |-> FALSE, raw_buffer |-> FALSE,
     connection |-> FALSE, conns |-> 0, reply_len |-> 0, to_write |-> 0,
     held |-> <<>>, sent |-> <<>>]

TaskIds == 1..Len(tasks)

\* the task is inside while (server_running) { ... }
InLoop(t) == tasks[t].pc \in {"loop", "recvfrom", "accept", "recv", "send"}

RECURSIVE SumConns(_)
SumConns(n) == IF n = 0 THEN 0 ELSE tasks[n].conns + SumConns(n - 1)

\* accepted connections open in the whole firmware
OpenConns == SumConns(Len(tasks))

\* what a peer may deliver to a listener: the two requests framed either way,
\* noise, a buffer shorter than a header (recvfrom may also deliver nothing)
ServerInputs ==
    {Framed(TextGetSysinfo, TRUE), Framed(TextGetSysinfo, FALSE),
     Framed(TextFoo, TRUE), Framed(TextFoo, FALSE), Noise12, <<0, 0>>, <<>>}

\* tplink_kasa_process_buffer(raw_buffer, rx_len, is_tcp_server) for each
\* deliverable buffer, evaluated once
Exchange ==
    [b \in ServerInputs, is_tcp_server \in BOOLEAN |->
        tplink_kasa_process_buffer(b, Len(b), is_tcp_server)]

\* the firmware has not panicked; the listeners leave the codec harness alone
Alive ==
    /\ ~panicked
    /\ UNCHANGED <<cvars, pvars, am2302>>

\* start_servers: one TCP and one UDP server_task
start_servers ==
    /\ Len(tasks) + 2 <= MaxTasks
    /\ tasks' = tasks \o <<NewTask("tcp"), NewTask("udp")>>

\* event_handler, by event
EventStaStart ==
    /\ Alive
    /\ UNCHANGED <<server_running, tasks, panicked, stop_requested, wire>>

EventStaDisconnected ==
    /\ Alive
    /\ server_running' = FALSE
    /\ stop_requested' = TRUE
    /\ UNCHANGED <<tasks, panicked, wire>>

EventStaGotIp ==
    /\ Alive
    /\ start_servers
    /\ stop_requested' = FALSE
    /\ UNCHANGED <<server_running, panicked, wire>>

EventApStaConnected ==
    /\ Alive
    /\ start_servers
    /\ stop_requested' = FALSE
    /\ UNCHANGED <<server_running, panicked, wire>>

\* CLEAN_UP without the close(my_sock)
CleanUpLeavesSocket(task) == [task EXCEPT !.pc = "ended", !.raw_buffer = FALSE]

\* CLEAN_UP: free(raw_buffer); close(my_sock); vTaskDelete(NULL)
CleanUp(task) == [task EXCEPT !.pc = "ended", !.raw_buffer = FALSE, !.my_sock = FALSE]

\* shutdown(connection, 0); close(connection), then back to the top of the
\* loop: the locals of the pass are gone
CloseConnection(task) ==
    [task EXCEPT !.pc = "loop", !.connection = FALSE, !.conns = @ - 1,
                 !.reply_len = 0, !.to_write = 0, !.held = <<>>, !.sent = <<>>]

\* the step of task t made these calls
Calls(t, calls) == wire' = [task |-> t, calls |-> calls]

\* continue: back to the top of the loop
Continue(task) == [task EXCEPT !.pc = "loop"]

\* server_task up to the receive loop: malloc, socket, bind, listen, and
\* server_running = true
TaskSetup(t) ==
    /\ Alive
    /\ tasks[t].pc = "setup"
    /\ \/ \* socket() failed: plain return, the buffer stays allocated
          /\ tasks' = [tasks EXCEPT ![t] = [@ EXCEPT !.pc = "returned", !.raw_buffer = TRUE]]
          /\ Calls(t, <<Call("malloc", 1), Call("socket", -1)>>)
          /\ UNCHANGED server_running
       \/ \* bind() failed: goto CLEAN_UP
          /\ tasks' = [tasks EXCEPT ![t] =
                          CleanUp([@ EXCEPT !.raw_buffer = TRUE, !.my_sock = TRUE])]
          /\ Calls(t, <<Call("malloc", 1), Call("socket", 0), Call("bind", -1),
                        Call("free", 0), Call("close", 0)>>)
          /\ UNCHANGED server_running
       \/ \* listen() failed (TCP only): goto CLEAN_UP
          /\ tasks[t].kind = "tcp"
          /\ tasks' = [tasks EXCEPT ![t] =
                          CleanUp([@ EXCEPT !.raw_buffer = TRUE, !.my_sock = TRUE])]
          /\ Calls(t, <<Call("malloc", 1), Call("socket", 0), Call("bind", 0),
                        Call("listen", -1), Call("free", 0), Call("close", 0)>>)
          /\ UNCHANGED server_running
       \/ \* all succeeded: enter the receive loop
          /\ tasks' = [tasks EXCEPT ![t] =
                          [@ EXCEPT !.pc = "loop", !.raw_buffer = TRUE, !.my_sock = TRUE]]
          /\ Calls(t, <<Call("malloc", 1), Call("socket", 0), Call("bind", 0)>>
                      \o (IF tasks[t].kind = "tcp" THEN <<Call("listen", 0)>> ELSE <<>>))
          /\ server_running' = TRUE
    /\ UNCHANGED <<panicked, stop_requested>>

\* while (server_running): one test of the flag
LoopTest(t) ==
    /\ Alive
    /\ tasks[t].pc = "loop"
    /\ \/ /\ server_running
          /\ tasks' = [tasks EXCEPT ![t] =
                          [@ EXCEPT !.pc = IF tasks[t].kind = "udp" THEN "recvfrom" ELSE "accept",
                                    !.connection = FALSE]]
          /\ Calls(t, <<>>)
       \/ /\ ~server_running
          /\ tasks' = [tasks EXCEPT ![t] = CleanUp(@)]
          /\ Calls(t, <<Call("free", 0), Call("close", 0)>>)
    /\ UNCHANGED <<server_running, panicked, stop_requested>>

\* recvfrom timed out and the pass went on to the sendto all the same
UdpTimeoutSends(t) ==
    /\ tasks' = [tasks EXCEPT ![t] = Continue(@)]
    /\ Calls(t, <<Io("recvfrom", 0, buffer_len - 1, -1, <<>>),
                  Io("sendto", 0, 0, 0, <<>>)>>)
    /\ UNCHANGED panicked

\* UDP: recvfrom returned rx_len < 0 (timeout): vTaskDelay, continue
UdpTimeout(t) ==
    /\ tasks' = [tasks EXCEPT ![t] = Continue(@)]
    /\ Calls(t, <<Io("recvfrom", 0, buffer_len - 1, -1, <<>>)>>)
    /\ UNCHANGED panicked

\* UDP: recvfrom returns; on a datagram the exchange runs to the sendto
UdpReceive(t) ==
    /\ Alive
    /\ tasks[t].pc = "recvfrom"
    /\ \/ UdpTimeout(t)
       \/ \E b \in ServerInputs :
            LET r     == Exchange[b, FALSE]
                calls == <<Io("recvfrom", 0, buffer_len - 1, Len(b), <<>>),
                           Io("process", 0, Len(b), r.ret, <<>>)>>
            IN  \/ \* sendto(my_sock, raw_buffer, reply_len, ...), whatever it returns
                   /\ tasks' = [tasks EXCEPT ![t] = Continue(@)]
                   /\ Calls(t, Append(calls, Io("sendto", 0, r.ret, r.ret, r.reply)))
                   /\ UNCHANGED panicked
                \/ /\ "crashed" \in CallOutcomes(r)
                   /\ panicked' = TRUE
                   /\ Calls(t, calls)
                   /\ UNCHANGED tasks
    /\ UNCHANGED <<server_running, stop_requested>>

\* TCP: accept returns
TcpAccept(t) ==
    /\ Alive
    /\ tasks[t].pc = "accept"
    /\ \/ \* connection < 0: vTaskDelay, continue
          /\ tasks' = [tasks EXCEPT ![t] = Continue(@)]
          /\ Calls(t, <<Call("accept", -1)>>)
       \/ \* a client connection has been accepted
          /\ OpenConns < MaxConns
          /\ tasks' = [tasks EXCEPT ![t] =
                          [@ EXCEPT !.pc = "recv", !.connection = TRUE, !.conns = @ + 1]]
          /\ Calls(t, <<Call("accept", 1)>>)
    /\ UNCHANGED <<server_running, panicked, stop_requested>>

\* recv returned 0 and the pass went on: the empty buffer is processed and
\* the connection closed
TcpRecvClosedGoesOn(t) ==
    /\ tasks' = [tasks EXCEPT ![t] = CloseConnection(@)]
    /\ Calls(t, <<Io("recv", 0, buffer_len - 1, 0, <<>>), Io("process", 0, 0, 0, <<>>),
                  Call("shutdown", 0), Call("close", 0)>>)
    /\ UNCHANGED panicked

\* TCP: recv returned rx_len == 0 (connection closed by the peer): continue
TcpRecvClosed(t) ==
    /\ tasks' = [tasks EXCEPT ![t] = Continue(@)]
    /\ Calls(t, <<Io("recv", 0, buffer_len - 1, 0, <<>>)>>)
    /\ UNCHANGED panicked

\* TCP: recv on the accepted connection returns
TcpRecv(t) ==
    /\ Alive
    /\ tasks[t].pc = "recv"
    /\ \/ \* rx_len < 0: continue
          /\ tasks' = [tasks EXCEPT ![t] = Continue(@)]
          /\ Calls(t, <<Io("recv", 0, buffer_len - 1, -1, <<>>)>>)
          /\ UNCHANGED panicked
       \/ TcpRecvClosed(t)
       \/ \E b \in ServerInputs \ {<<>>} :
            LET r     == Exchange[b, TRUE]
                calls == <<Io("recv", 0, buffer_len - 1, Len(b), <<>>),
                           Io("process", 0, Len(b), r.ret, <<>>)>>
            IN  \/ \* int to_write = reply_len, and into the write loop
                   /\ r.ret > 0
                   /\ tasks' = [tasks EXCEPT ![t] =
                                   [@ EXCEPT !.pc = "send", !.reply_len = r.ret,
                                             !.to_write = r.ret, !.held = r.reply]]
                   /\ Calls(t, calls)
                   /\ UNCHANGED panicked
                \/ \* nothing to write: shutdown and close at once
                   /\ r.ret = 0
                   /\ tasks' = [tasks EXCEPT ![t] = CloseConnection(@)]
                   /\ Calls(t, calls \o <<Call("shutdown", 0), Call("close", 0)>>)
                   /\ UNCHANGED panicked
                \/ /\ "crashed" \in CallOutcomes(r)
                   /\ panicked' = TRUE
                   /\ Calls(t, calls)
                   /\ UNCHANGED tasks
    /\ UNCHANGED <<server_running, stop_requested>>

\* what one send of to_write bytes may return: an error, all of it, or all
\* but the last byte
SendResults(to_write) == {-1, to_write, Max(1, to_write - 1)}

\* the send with its first byte always taken from the start of raw_buffer
SendCallFromStart(task, written) ==
    Io("send", 0, task.to_write, written, SubSeq(task.held, 1, task.to_write))

\* send(connection, raw_buffer + (reply_len - to_write), to_write, 0)
SendCall(task, written) ==
    Io("send", task.reply_len - task.to_write, task.to_write, written,
       SubSeq(task.held, task.reply_len - task.to_write + 1, task.reply_len))

\* TCP: one send of the write loop returns
TcpSend(t) ==
    /\ Alive
    /\ tasks[t].pc = "send"
    /\ \E written \in SendResults(tasks[t].to_write) :
         LET call == SendCall(tasks[t], written)
         IN  \/ \* written < 0: break
                /\ written < 0
                /\ tasks' = [tasks EXCEPT ![t] = CloseConnection(@)]
                /\ Calls(t, <<call, Call("shutdown", 0), Call("close", 0)>>)
             \/ \* to_write -= written, and round the loop again
                /\ written >= 0
                /\ tasks[t].to_write - written > 0
                /\ tasks' = [tasks EXCEPT ![t] =
                                [@ EXCEPT !.to_write = @ - written,
                                          !.sent = @ \o SubSeq(call.data, 1, written)]]
                /\ Calls(t, <<call>>)
             \/ \* to_write -= written leaves nothing
                /\ written >= 0
                /\ tasks[t].to_write - written = 0
                /\ tasks' = [tasks EXCEPT ![t] = CloseConnection(@)]
                /\ Calls(t, <<call, Call("shutdown", 0), Call("close", 0)>>)
    /\ UNCHANGED <<server_running, panicked, stop_requested>>

\* one step of server_task instance t
TaskStep(t) ==
    /\ t \in TaskIds
    /\ \/ TaskSetup(t)
       \/ LoopTest(t)
       \/ UdpReceive(t)
       \/ TcpAccept(t)
       \/ TcpRecv(t)
       \/ TcpSend(t)

Init ==
    /\ CodecIdle
    /\ ProcessIdle
    /\ ServerIdle

Next ==
    \/ EventStaStart
    \/ EventStaDisconnected
    \/ EventStaGotIp
    \/ EventApStaConnected
    \/ \E t \in TaskIds : TaskSetup(t)
    \/ \E t \in TaskIds : LoopTest(t)
    \/ \E t \in TaskIds : UdpReceive(t)
    \/ \E t \in TaskIds : TcpAccept(t)
    \/ \E t \in TaskIds : TcpRecv(t)
    \/ \E t \in TaskIds : TcpSend(t)

Spec == Init /\ [][Next]_vars

\* FreeRTOS runs every ready task, and a pending accept / recv / recvfrom /
\* send returns: each server_task keeps taking steps until it ends
FairSpec == Spec /\ \A t \in 1..MaxTasks : WF_vars(TaskStep(t))

----------------------------------------------------------------------------
(* Header harness: the length header written by tplink_kasa_encrypt and read
   back by tplink_kasa_decrypt, for every length the receive buffer allows *)

\* the codec harness proper is not in use
CodecCallsIdle ==
    /\ cop = "idle"
    /\ enc_in = <<>>
    /\ enc_hdr = FALSE
    /\ enc_out = NoEnc
    /\ dec_out = NoDec
    /\ enc_prev = NoCall
    /\ todo = <<>>
    /\ raw = <<>>

InitHeader ==
    /\ CodecCallsIdle
    /\ hop = "start"
    /\ hlen \in 0..buffer_len
    /\ hbytes = <<>>
    /\ hread = 0
    /\ ProcessIdle
    /\ ServerIdle

\* the header steps touch nothing else
HeaderOnly ==
    UNCHANGED <<cop, enc_in, enc_hdr, enc_out, dec_out, enc_prev, todo, raw,
                am2302, pvars, svars>>

\* tplink_kasa_encrypt writes the header for a payload of hlen bytes
WriteHeader ==
    /\ hop = "start"
    /\ hbytes' = EncryptHeader(hlen)
    /\ hop' = "written"
    /\ UNCHANGED <<hlen, hread>>
    /\ HeaderOnly

\* tplink_kasa_decrypt reads the header from the first four bytes
ReadHeader ==
    /\ hop = "written"
    /\ hread' = ToInt(DecryptHeader(hbytes))
    /\ hop' = "read"
    /\ UNCHANGED <<hlen, hbytes>>
    /\ HeaderOnly

NextHeader ==
    \/ WriteHeader
    \/ ReadHeader

SpecHeader == InitHeader /\ [][NextHeader]_vars

----------------------------------------------------------------------------
(* The wire format, stated independently of the code, for the claims *)

\* the big-endian length the first four bytes of buf declare, as a uint32_t
DeclaredLength(buf) == [hi |-> buf[1] * 256 + buf[2], lo |-> buf[3] * 256 + buf[4]]

----------------------------------------------------------------------------
(* Claims about tplink_kasa_process_buffer, checked under SpecProcess *)

\* the document has a member "system" that has a member "get_sysinfo"
HasGetSysinfo(doc) ==
    \E i \in 1..Len(doc.child) :
        /\ doc.child[i].string = NameSystem
        /\ \E j \in 1..Len(doc.child[i].item.child) :
                doc.child[i].item.child[j].string = NameGetSysinfo

NameStatus == <<115, 116, 97, 116, 117, 115>>     \* "status"

\* the get_sysinfo object of a reply document
SysinfoOf(doc) == cJSON_GetObjectItem(cJSON_GetObjectItem(doc, NameSystem), NameGetSysinfo)

\* every member of the device descriptor is in the reply document
CarriesDescriptor(doc) ==
    \A i \in 1..Len(SysinfoOf(tplink_kasa_sysinfo).child) :
        LET m == SysinfoOf(tplink_kasa_sysinfo).child[i]
        IN  \/ cJSON_GetObjectItem(SysinfoOf(doc), m.string) = m.item
            \/ m.string = NameStatus

\* C3: for a request containing system -> get_sysinfo the reply is the device
\* descriptor plus a status sub-object holding err_code = 0 and the
\* temperature and humidity the sensor functions return at that time.
C3_ReplyCarriesReadings ==
    (pb_state = "returned" /\ HasGetSysinfo(pb_out.request)) =>
        /\ pb_out.ret > 0
        /\ CarriesDescriptor(pb_out.response)
        /\ \E nm \in {NameState, NameStatus} :
              LET st == cJSON_GetObjectItem(SysinfoOf(pb_out.response), nm)
              IN  /\ st.type = "Object"
                  /\ cJSON_GetObjectItem(st, NameErrCode) = Number(0)
                  /\ cJSON_GetObjectItem(st, NameTemperature) = Number(thsensor_read_temperature)
                  /\ cJSON_GetObjectItem(st, NameHumidity) = Number(thsensor_read_humidity)

\* C4: a received buffer that is too short to decode, does not parse, or
\* parses to a document without system -> get_sysinfo makes
\* tplink_kasa_process_buffer return 0 with no reply built: a value, not a
\* failure.
C4_NoReplyIsAValue ==
    (pb_state \in {"returned", "crashed"} /\ ~HasGetSysinfo(pb_out.request)) =>
        /\ pb_state = "returned"
        /\ pb_out.ret = 0
        /\ pb_out.reply = <<>>
        /\ pb_out.response = NULL

\* C6: for a buffer of n bytes whose header declares more than the bytes
\* supplied after it, decrypt reads no ciphertext index >= n, writes nothing
\* past the buffers it was given, and returns the available length n.  (n = 4
\* is left to C7.)
C6_TruncationStaysInBounds ==
    LET n == Len(pb_in.raw_buffer)
    IN  (/\ pb_state \in {"returned", "crashed"}
         /\ n > HeaderSize
         /\ U32Gt(DeclaredLength(pb_in.raw_buffer), U32(n - HeaderSize))) =>
            /\ \A i \in pb_out.raw_reads : i < n
            /\ \A i \in pb_out.scratch_writes : i < pb_out.scratch_size
            /\ \A i \in pb_out.raw_writes : i < buffer_len
            /\ pb_out.decrypted_len = n

----------------------------------------------------------------------------
(* Claims about the codec, checked under SpecCodec *)

\* the plaintext a decrypt call delivered: the first ret bytes of its output
Delivered == SubSeq(dec_out.decrypted_payload, 1, dec_out.ret)

\* C1: header-present round trip.  Decrypting what encrypt produced with
\* include_header = true, with the length encrypt returned, yields exactly the
\* plaintext (at least 1 byte) and returns its length.
C1_HeaderRoundTrip ==
    (cop = "decrypt" /\ enc_hdr /\ Len(enc_in) >= 1) =>
        /\ dec_out.ret = Len(enc_in)
        /\ Delivered = enc_in
        /\ CString(dec_out.decrypted_payload) = enc_in

C1_Witness ==
    /\ cop = "decrypt" /\ enc_hdr
    /\ enc_in = TextGetSysinfo
    /\ enc_out.encrypted_len = 33
    /\ dec_out.ret = 29

\* C2: header-absent round trip.  Decrypting (has_header = false) what encrypt
\* produced with include_header = false yields exactly the plaintext and
\* returns its length.
C2_HeaderlessRoundTrip ==
    (cop = "decrypt" /\ ~enc_hdr) =>
        /\ dec_out.ret = Len(enc_in)
        /\ Delivered = enc_in

\* C7: decode length rule.  For n >= 4 received bytes declaring length L:
\* decrypt returns L with the payload at offset 4 when L <= n - 4, otherwise
\* returns n with the payload at offset 0; it returns 0 only when the buffer
\* is shorter than the header or L is 0.
C7_DecodeLengthRule ==
    (cop = "decrypt_raw") =>
        LET n == Len(raw)
        IN  /\ n < HeaderSize => dec_out.ret = 0
            /\ n >= HeaderSize =>
                LET L == DeclaredLength(raw)
                IN  /\ U32Le(L, U32(n - HeaderSize)) =>
                            dec_out.ret = ToInt(L) /\ dec_out.header_len = HeaderSize
                    /\ U32Gt(L, U32(n - HeaderSize)) =>
                            dec_out.ret = n /\ dec_out.header_len = 0
                    /\ dec_out.ret = 0 => L = U32(0)

\* the ciphertext bytes of an encrypt call, header excluded
CipherPart(payload, hdr, out) ==
    LET header_len == IF hdr THEN HeaderSize ELSE 0
    IN  SubSeq(out, header_len + 1, header_len + Len(payload))

PrevCipher == CipherPart(enc_prev.payload, enc_prev.hdr, enc_prev.out)
LastCipher == CipherPart(enc_in, enc_hdr, enc_out.encrypted_payload)

TwoEncryptCalls == cop \in {"encrypt", "decrypt"} /\ enc_prev # NoCall

\* encrypting the same plaintext again gives the same bytes, whatever calls
\* were made in between
EncryptDeterministic ==
    (TwoEncryptCalls /\ enc_prev.payload = enc_in) =>
        /\ PrevCipher = LastCipher
        /\ enc_prev.hdr = enc_hdr => enc_prev.out = enc_out.encrypted_payload

\* C10 as stated: two distinct plaintexts of equal length give ciphertexts
\* that differ at every position at which the plaintexts differ, and
\* encrypting the same plaintext twice gives identical ciphertext.
C10_DifferEverywhere ==
    /\ EncryptDeterministic
    /\ (TwoEncryptCalls /\ Len(enc_prev.payload) = Len(enc_in)) =>
            \A i \in 1..Len(enc_in) :
                enc_prev.payload[i] # enc_in[i] => PrevCipher[i] # LastCipher[i]

\* C10 amended: the ciphertexts differ at every position at which the
\* plaintexts differ and the key in force (the seed at position 0, the
\* preceding ciphertext byte elsewhere) is the same for both, hence at the
\* first differing position; encrypting the same plaintext twice gives
\* identical ciphertext.
C10_DifferWhereKeyAgrees ==
    /\ EncryptDeterministic
    /\ (TwoEncryptCalls /\ Len(enc_prev.payload) = Len(enc_in)) =>
            \A i \in 1..Len(enc_in) :
                (/\ enc_prev.payload[i] # enc_in[i]
                 /\ (i = 1 \/ PrevCipher[i - 1] = LastCipher[i - 1]
                            \/ \A j \in 1..(i - 1) : enc_prev.payload[j] = enc_in[j]))
                    => PrevCipher[i] # LastCipher[i]

\* "11" then "22": the plaintexts differ at both positions
C10_Witness ==
    /\ TwoEncryptCalls
    /\ enc_prev.payload = <<49, 49>>
    /\ enc_in = <<50, 50>>
    /\ PrevCipher[1] # LastCipher[1]

----------------------------------------------------------------------------
(* Claims about the listeners *)

\* the listener is in its receive loop and the firmware is alive
Running(t) == InLoop(t) /\ ~panicked

\* the stopped state: CLEAN_UP has freed the buffer and closed the socket
Stopped(t) ==
    /\ tasks[t].pc = "ended"
    /\ ~tasks[t].raw_buffer
    /\ ~tasks[t].my_sock

\* C5: every connection a stream listener accepted is shut down and closed
\* before the listener's next accept or its stop, on every path of the
\* exchange; so a stream listener never holds more than one open accepted
\* connection.
C5_ConnectionClosedEachExchange ==
    \A t \in TaskIds :
        tasks[t].kind = "tcp" =>
            /\ tasks[t].conns <= 1
            /\ tasks[t].pc \in {"loop", "accept", "ended"} => tasks[t].conns = 0

\* C8: whenever server_running has been cleared while a listener is in its
\* receive loop, that listener eventually reaches the stopped state, whatever
\* connectivity events follow (a panic of the firmware is let off here, so a
\* violation is a live listener that never stops).
C8_StopTakesEffect ==
    \A t \in 1..MaxTasks :
        (t \in TaskIds /\ InLoop(t) /\ ~server_running)
            ~> (panicked \/ (t \in TaskIds /\ Stopped(t)))

\* C9: no outcome of an exchange (accept, receive, decode, parse, unsupported
\* request, send) makes a listener leave its loop: a listener stops running
\* only when server_running is clear.
C9_ErrorsStayInExchange ==
    [][\A t \in TaskIds : (Running(t) /\ ~Running(t)') => ~server_running]_vars

----------------------------------------------------------------------------
(* Claims about what the listeners put on the wire *)

\* the four bytes of a length, most significant first
BigEndian4(n) ==
    <<(n \div 16777216) % 256, (n \div 65536) % 256, (n \div 256) % 256, n % 256>>

\* c is the autokey ciphertext of p: each byte is the plaintext byte XOR the
\* ciphertext byte before it, the first one XOR 171
IsAutokey(p, c) ==
    /\ Len(c) = Len(p)
    /\ \A i \in 1..Len(p) : c[i] = XorBits(p[i], IF i = 1 THEN 171 ELSE c[i - 1], 8)

\* frame is the payload as it goes on the wire with (hdr) or without the header
IsFrameOf(payload, hdr, frame) ==
    IF hdr
    THEN /\ Len(frame) = Len(payload) + 4
         /\ SubSeq(frame, 1, 4) = BigEndian4(Len(payload))
         /\ IsAutokey(payload, SubSeq(frame, 5, Len(frame)))
    ELSE IsAutokey(payload, frame)

\* tplink_kasa_encrypt frames every payload as include_header says
EncryptFrames ==
    \A p \in Plaintexts \cup {SysinfoPayload}, h \in BOOLEAN :
        LET e == tplink_kasa_encrypt(p, h)
        IN  /\ e.encrypted_len = Len(p) + (IF h THEN 4 ELSE 0)
            /\ IsFrameOf(p, h, SubSeq(e.encrypted_payload, 1, e.encrypted_len))

\* the replies the responder produces for the listeners
Replies == {Exchange[b, h].reply : b \in ServerInputs, h \in BOOLEAN} \ {<<>>}

\* those of them that are the descriptor framed with / without the header
HeaderedReplies == {r \in Replies : IsFrameOf(SysinfoPayload, TRUE, r)}
BareReplies == {r \in Replies : IsFrameOf(SysinfoPayload, FALSE, r)}

\* the calls of the last step that hand reply bytes to a socket
WireSends == {i \in 1..Len(wire.calls) : wire.calls[i].op \in {"send", "sendto"}}

\* C11: tplink_kasa_encrypt emits, with include_header, the 4-byte big-endian
\* payload length and then the ciphertext and returns length + 4, and without
\* it only the ciphertext from offset 0 and returns the length; every reply a
\* stream listener sends carries the header, every reply a datagram listener
\* sends does not.
C11_ReplyFramingByTransport ==
    /\ EncryptFrames
    /\ \A t \in TaskIds :
          tasks[t].pc = "send" => /\ tasks[t].kind = "tcp"
                                  /\ tasks[t].held \in HeaderedReplies
    /\ \A i \in WireSends :
          LET c == wire.calls[i]
          IN  /\ c.op = "send" <=> tasks[wire.task].kind = "tcp"
              /\ (c.op = "send" /\ c.at = 0) => c.data \in HeaderedReplies
              /\ (c.op = "sendto" /\ c.len > 0) => c.data \in BareReplies

\* both listeners have replied: the last step sent a whole reply, the stream
\* one or the datagram one
C11_Witness ==
    \E i \in WireSends :
        /\ wire.calls[i].at = 0
        /\ wire.calls[i].ret = Len(SysinfoPayload) + (IF wire.calls[i].op = "send" THEN 4 ELSE 0)

----------------------------------------------------------------------------
(* Claims about memory *)

\* the exchanges a "process" call of the last step can have been
ExchangesOf(c) ==
    {Exchange[b, tasks[wire.task].kind = "tcp"] : b \in {x \in ServerInputs : Len(x) = c.len}}

\* C12: every block allocated for an exchange is released by the end of the
\* exchange on every path, and the receive buffer of a listener is released
\* on every path by which the listener ends (socket, bind and listen failure
\* included).
C12_MemoryReleased ==
    /\ \A t \in TaskIds :
          tasks[t].pc \in {"ended", "returned"} => ~tasks[t].raw_buffer
    /\ \A i \in 1..Len(wire.calls) :
          wire.calls[i].op = "process" =>
              \A r \in ExchangesOf(wire.calls[i]) : Allocated(r) \subseteq Released(r)

----------------------------------------------------------------------------
(* Claims about single steps of a listener *)

\* the step is one of task t (it moved, or it brought the firmware down)
StepOf(t) ==
    /\ t \in TaskIds
    /\ wire'.task = t
    /\ tasks'[t] # tasks[t] \/ panicked' # panicked

\* the names of the calls the step made
OpsOf(calls) == {calls[i].op : i \in 1..Len(calls)}

\* how many times the step called op
TimesCalled(calls, op) == Cardinality({i \in 1..Len(calls) : calls[i].op = op})

\* the calls of the step that failed
FailedOps(calls) == {calls[i].op : i \in {j \in 1..Len(calls) : calls[j].ret < 0}}

\* C13: when recv on an accepted connection returns zero bytes, the stream
\* listener calls neither the responder nor send for that connection, and is
\* next at the top of its loop, with nothing propagated: server_running is
\* unchanged and the firmware is alive.
C13_ZeroReadBackToAccept ==
    [][\A t \in 1..MaxTasks :
          (StepOf(t) /\ tasks[t].pc = "recv" /\ wire'.calls[1].ret = 0)
              => /\ OpsOf(wire'.calls) = {"recv"}
                 /\ tasks'[t].pc = "loop"
                 /\ tasks'[t].my_sock /\ tasks'[t].raw_buffer
                 /\ server_running' = server_running
                 /\ ~panicked']_vars

\* a stream listener has just read zero bytes from a connection
C13_Witness ==
    /\ wire.task \in TaskIds
    /\ wire.calls # <<>>
    /\ wire.calls[1].op = "recv" /\ wire.calls[1].ret = 0
    /\ tasks[wire.task].pc = "loop"

\* C14: when bind fails, or listen fails for the stream listener, the listener
\* never enters its loop and never sets server_running, closes its socket and
\* ends; it binds and listens once only, and the other listeners are left as
\* they were.
C14_SetupFailureTerminal ==
    [][\A t \in 1..MaxTasks :
          /\ (StepOf(t) /\ tasks[t].pc = "setup"
                        /\ FailedOps(wire'.calls) \cap {"bind", "listen"} # {})
                => /\ tasks'[t].pc = "ended"
                   /\ ~tasks'[t].my_sock
                   /\ "close" \in OpsOf(wire'.calls)
                   /\ TimesCalled(wire'.calls, "bind") = 1
                   /\ TimesCalled(wire'.calls, "listen") <= 1
                   /\ server_running' = server_running
                   /\ \A u \in TaskIds \ {t} : tasks'[u] = tasks[u]
          /\ (t \in TaskIds /\ tasks[t].pc = "ended") => tasks'[t] = tasks[t]]_vars

\* a listener has just ended on a failed bind or listen
C14_Witness ==
    /\ wire.task \in TaskIds
    /\ FailedOps(wire.calls) \cap {"bind", "listen"} # {}
    /\ tasks[wire.task].pc = "ended"

\* C16: when recvfrom returns without a datagram, the datagram listener makes
\* no other call (no responder, no send) and changes nothing but its place:
\* it is back at the top of its loop with its buffer, socket and
\* server_running as they were.
C16_TimeoutChangesNothing ==
    [][\A t \in 1..MaxTasks :
          (StepOf(t) /\ tasks[t].pc = "recvfrom" /\ wire'.calls[1].ret < 0)
              => /\ OpsOf(wire'.calls) = {"recvfrom"}
                 /\ Len(wire'.calls) = 1
                 /\ tasks'[t] = [tasks[t] EXCEPT !.pc = "loop"]
                 /\ \A u \in TaskIds \ {t} : tasks'[u] = tasks[u]
                 /\ server_running' = server_running
                 /\ ~panicked']_vars

\* a datagram listener has just timed out waiting
C16_Witness ==
    /\ wire.task \in TaskIds
    /\ wire.calls # <<>>
    /\ wire.calls[1].op = "recvfrom" /\ wire.calls[1].ret < 0
    /\ tasks[wire.task].pc = "loop"

----------------------------------------------------------------------------
(* Claims about the length header *)

\* C15: for every length L from 0 to the size of the receive buffer, the four
\* header bytes tplink_kasa_encrypt writes for a payload of L bytes are L in
\* big-endian order, and tplink_kasa_decrypt reads exactly L back from them.
C15_HeaderLengthRoundTrip ==
    /\ hop \in {"written", "read"} => hbytes = BigEndian4(hlen)
    /\ hop = "read" => hread = hlen

\* a length that needs two bytes has been written and read back
C15_Witness ==
    /\ hop = "read"
    /\ hlen > 255
    /\ hbytes[3] # 0 /\ hbytes[4] # 0

----------------------------------------------------------------------------
(* Claims about sending *)

\* the value the responder returned in the step, when it was called
ProcessRet(calls) ==
    LET i == CHOOSE j \in 1..Len(calls) : calls[j].op = "process"
    IN  calls[i].ret

\* C17: for every datagram received, the datagram listener sends to the
\* originating address exactly once if the responder produced a reply (reply
\* length > 0) and not at all otherwise: no reply, nothing transmitted, not
\* even an empty datagram.
C17_SendOnlyAReply ==
    (/\ wire.task \in TaskIds
     /\ tasks[wire.task].kind = "udp"
     /\ "process" \in OpsOf(wire.calls)
     /\ ~panicked)
        => TimesCalled(wire.calls, "sendto") = (IF ProcessRet(wire.calls) > 0 THEN 1 ELSE 0)

\* C18: for every reply of n > 0 bytes and whatever the sends return, each
\* send starts at the first byte not yet sent and offers the rest up to n; the
\* loop ends at the first send error, or once the chunks sent, in order, are
\* exactly bytes 0..n-1; every round that does not end it sends at least one
\* more byte.
C18_WriteLoop ==
    [][\A t \in 1..MaxTasks :
          (StepOf(t) /\ tasks[t].pc = "send")
              => LET c    == wire'.calls[1]
                     n    == tasks[t].reply_len
                     done == tasks[t].sent \o SubSeq(c.data, 1, c.ret)
                 IN  /\ c.op = "send"
                     /\ TimesCalled(wire'.calls, "send") = 1
                     /\ n > 0 /\ Len(tasks[t].held) = n
                     /\ c.at = Len(tasks[t].sent)
                     /\ c.at + c.len = n
                     /\ c.data = SubSeq(tasks[t].held, c.at + 1, n)
                     /\ c.ret < 0 => tasks'[t].pc = "loop"
                     /\ c.ret >= 0 =>
                           /\ done = SubSeq(tasks[t].held, 1, Len(done))
                           /\ IF tasks'[t].pc = "send"
                              THEN /\ tasks'[t].sent = done
                                   /\ Len(done) > Len(tasks[t].sent)
                                   /\ Len(done) < n
                                   /\ tasks'[t].to_write < tasks[t].to_write
                              ELSE /\ tasks'[t].pc = "loop"
                                   /\ done = tasks[t].held]_vars

\* a reply has gone out in two chunks: the last send started past offset 0
\* and completed the reply
C18_Witness ==
    /\ wire.task \in TaskIds
    /\ wire.calls # <<>>
    /\ wire.calls[1].op = "send"
    /\ wire.calls[1].at > 0
    /\ wire.calls[1].ret = wire.calls[1].len
    /\ tasks[wire.task].pc = "loop"

----------------------------------------------------------------------------
(* Claims about the cipher *)

\* the ciphertext bytes the last tplink_kasa_decrypt call worked on, and the
\* plaintext it produced for them
DecryptedFrom ==
    SubSeq(enc_out.encrypted_payload, dec_out.header_len + 1, dec_out.header_len + dec_out.ret)
DecryptedTo == SubSeq(dec_out.decrypted_payload, 1, dec_out.ret)

\* C19: encrypt computes c[0] = p[0] XOR 171 and c[i] = p[i] XOR c[i-1], and
\* decrypt computes p[0] = c[0] XOR 171 and p[i] = c[i] XOR c[i-1]: in both
\* directions the key starts at 171 and is, after each position, the
\* ciphertext byte at that position.
C19_AutokeyReference ==
    /\ cop \in {"encrypt", "decrypt"} => IsAutokey(enc_in, LastCipher)
    /\ cop \in {"decrypt", "decrypt_raw"} =>
          /\ Len(DecryptedTo) = Len(DecryptedFrom)
          /\ \A i \in 1..dec_out.ret :
                DecryptedTo[i] =
                    XorBits(DecryptedFrom[i], IF i = 1 THEN 171 ELSE DecryptedFrom[i - 1], 8)

\* a plaintext of several bytes, none equal to the byte before it, has been
\* encrypted and decrypted: the key after a position was not the plaintext
C19_Witness ==
    /\ cop = "decrypt"
    /\ dec_out.ret >= 2
    /\ \E i \in 1..(Len(enc_in) - 1) : enc_in[i] # LastCipher[i]

----------------------------------------------------------------------------
(* Claims about the listeners as a whole *)

\* the listeners of one transport that are in their receive loop
LiveListeners(kind) == {t \in TaskIds : tasks[t].kind = kind /\ InLoop(t)}

\* C20: whatever connectivity events arrive, at most one stream listener and
\* at most one datagram listener are in the receive loop at any time.
C20_OneListenerPerTransport ==
    \A kind \in Transports : Cardinality(LiveListeners(kind)) <= 1

\* C21: a stop request is never overwritten by a listener.  From the
\* disconnect event that clears server_running until event_handler next calls
\* start_servers, the flag is false: no server_task created before the
\* disconnect (every task there is while the request stands) sets it back.
C21_StopNotOverwritten ==
    stop_requested => ~server_running

----------------------------------------------------------------------------
(* Claims about the buffers of an exchange, checked under SpecProcess *)

\* C22: whatever n bytes (n in 0..1999) were received, every write made while
\* the exchange is processed stays inside its buffer: the n-byte plaintext
\* scratch buffer json_string is written only at indices < n, the terminating
\* NUL included, and the 2000-byte receive/reply buffer only at indices < 2000.
C22_WritesStayInside ==
    LET n == Len(pb_in.raw_buffer)
    IN  (pb_state \in {"returned", "crashed"} /\ n \in 0..(buffer_len - 1)) =>
            /\ pb_out.scratch_size = n
            /\ \A i \in pb_out.scratch_writes : i >= 0 /\ i < n
            /\ \A i \in pb_out.raw_writes : i >= 0 /\ i < buffer_len

====
